---- MODULE Spec2Model ----
(***************************************************************************)
(* The analysis service of linkedin-recruiter: AnalysisEngine              *)
(* (core/analysis_engine.py) and ProfileAnalyzer (core/profile_analyzer.py)*)
(* as a state machine over the asyncio event loop.  One action is one run  *)
(* of a coroutine between two suspension points: the event loop never      *)
(* interleaves anything inside such a run.                                 *)
(***************************************************************************)
EXTENDS Integers, Sequences, FiniteSets, TLC

VARIABLES
    tasks,      \* every analysis started so far (engine or analyzer), in start order
    permits,    \* AnalysisEngine._concurrency_limiter: the semaphore's value
    waiters,    \* tasks suspended in the semaphore's acquire(), FIFO
    cache,      \* AnalysisEngine._analysis_cache (TTLCache), in link order
    acache,     \* ProfileAnalyzer._analysis_cache (TTLCache), in link order
    batch,      \* the analyze_profiles call under observation
    now,        \* the TTLCache timer, in seconds
    calc        \* a call of one of the pure functions: its arguments and result

vars == <<tasks, permits, waiters, cache, acache, batch, now, calc>>

(***************************************************************************)
(* Program constants and the scale of the model.                           *)
(***************************************************************************)
\* analysis_engine.py:28 sets 20 and analysis_engine.py:27 sets 50; the model
\* runs the same code at a smaller scale, keeping
\* MAX_CONCURRENT_ANALYSES < ANALYSIS_BATCH_SIZE so that a chunk queues on
\* the limiter as it does in the program.
MAX_CONCURRENT_ANALYSES == 1
ANALYSIS_BATCH_SIZE == 2
\* TTLCache(maxsize=1000, ...) in the program; scaled like the two above.
CACHE_MAXSIZE == 2
RETRY_MAX_ATTEMPTS == 3
CACHE_TTL_SECONDS == 3600
\* the clock advances in steps of TickSeconds, up to MaxTime
TickSeconds == 3600
MaxTime == 3600
\* at most MaxSingles direct analyze_single_profile calls beside the batch
MaxSingles == 1
\* at most MaxCalls direct calls where there is no batch
MaxCalls == 2
\* an analyze_profiles call gets at most MaxBatchLen profiles
MaxBatchLen == 3
\* month counts given to _calculate_experience_match run from 0 to MaxMonths
MaxMonths == 6
\* a profile given to get_total_experience lists at most MaxEntries experiences
MaxEntries == 2
\* a profile given to get_all_skills lists at most MaxSkills skills of its own
MaxSkills == 2

(***************************************************************************)
(* Inputs.  A profile and a job-requirements map are named; the operators  *)
(* below give the fields the code reads.                                   *)
(***************************************************************************)
VList(s) ==
    [t |-> "list", v |-> s]
VTuple(s) ==
    [t |-> "tuple", v |-> s]
VInt(n) ==
    [t |-> "int", v |-> <<n>>]
VNone ==
    [t |-> "none", v |-> <<>>]

\* the (key, value) pairs of a job-requirements dict
Items(r) ==
    CASE r = "R_list"   -> {<<"required_skills", VList(<<"python", "aws">>)>>,
                            <<"min_experience", VInt(5)>>}
      [] r = "R_tup"    -> {<<"required_skills", VTuple(<<"python">>)>>,
                            <<"min_experience", VInt(5)>>}
      [] r = "R_tup2"   -> {<<"required_skills", VTuple(<<"python", "aws">>)>>,
                            <<"min_experience", VInt(5)>>}
      [] r = "R_noreq"  -> {<<"required_skills", VTuple(<<>>)>>,
                            <<"min_experience", VInt(5)>>}
      [] r = "R_nopref" -> {<<"required_skills", VTuple(<<"python">>)>>,
                            <<"preferred_skills", VNone>>}
      [] OTHER          -> {}

\* the truth value Python gives a job-requirements value
Truthy(val) ==
    CASE val.t = "none" -> FALSE
      [] val.t = "int"  -> val.v[1] # 0
      [] OTHER          -> Len(val.v) > 0

\* dict.get(key, default)
Get(r, k, default) ==
    IF \E it \in Items(r) : it[1] = k
    THEN (CHOOSE it \in Items(r) : it[1] = k)[2]
    ELSE default

\* Profile.id; the profile None has none
ProfileId(p) ==
    CASE p = "p1" -> "id1"
      [] p = "p2" -> "id2"
      [] p = "p1_noname" -> "id1"
      [] OTHER -> ""

\* Profile.full_name
FullName(p) ==
    CASE p = "p1" -> "Ann"
      [] p = "p2" -> "Bob"
      [] OTHER -> ""

\* Profile.get_all_skills(): the normalised skills of the profile
get_all_skills(p) ==
    CASE p = "p1" -> {"python", "java"}
      [] p = "p2" -> {"python", "aws"}
      [] OTHER -> {}

\* Profile.experience: the entries as listed, start_date and end_date in days
Experience(p) ==
    CASE p = "p1" -> <<[start |-> 0, end |-> 731], [start |-> 547, end |-> 912]>>
      [] p = "p2" -> <<[start |-> 0, end |-> 2192]>>
      [] OTHER -> <<>>

\* int((days + 15) / 30.44): int() truncates towards zero
Months(days) ==
    IF days + 15 >= 0
    THEN ((days + 15) * 100) \div 3044
    ELSE 0 - (((0 - (days + 15)) * 100) \div 3044)

\* ProfileExperience.duration_months
duration_months(exp) ==
    IF Months(exp.end - exp.start) > 0 THEN Months(exp.end - exp.start) ELSE 0

\* sorted(self.experience, key=lambda x: x.start_date): a stable sort
RECURSIVE SortedByStart(_)
SortedByStart(exps) ==
    IF exps = <<>> THEN <<>>
    ELSE LET front == SortedByStart(SubSeq(exps, 1, Len(exps) - 1))
             last == exps[Len(exps)]
             k == Cardinality({i \in 1..Len(front) : front[i].start <= last.start})
         IN SubSeq(front, 1, k) \o <<last>> \o SubSeq(front, k + 1, Len(front))

\* the loop of get_total_experience from entry i on
RECURSIVE ExperienceLoop(_, _, _, _)
ExperienceLoop(sorted_exp, i, total_months, current_end) ==
    IF i > Len(sorted_exp) THEN total_months
    ELSE LET exp == sorted_exp[i]
         IN IF i = 1 \/ exp.start > current_end
            THEN ExperienceLoop(sorted_exp, i + 1,
                                total_months + duration_months(exp), exp.end)
            ELSE IF exp.end > current_end
            THEN ExperienceLoop(sorted_exp, i + 1,
                                total_months + Months(exp.end - current_end), exp.end)
            ELSE ExperienceLoop(sorted_exp, i + 1, total_months, current_end)

\* Profile.get_total_experience on a list of entries
total_experience(exps) ==
    IF exps = <<>> THEN 0 ELSE ExperienceLoop(SortedByStart(exps), 1, 0, 0)

get_total_experience(p) ==
    total_experience(Experience(p))

(***************************************************************************)
(* The cache key: f"{profile.id}:{hash(frozenset(job_requirements.items()))}"*)
(***************************************************************************)
\* hash() raises TypeError on a list
Hashable(val) ==
    val.t # "list"

\* CPython's hash of a small int: the int itself, except hash(-1) == -2
PyHashInt(n) ==
    IF n = -1 THEN -2 ELSE n

\* hash of a value; str hashes (SipHash) are taken to be collision free
PyHash(val) ==
    CASE val.t = "int"   -> <<"int", PyHashInt(val.v[1])>>
      [] val.t = "tuple" -> <<"tuple", val.v>>
      [] OTHER           -> <<"none">>

\* hash(frozenset(items)): a function of the hashes of the items alone
HashFrozenset(items) ==
    {<<it[1], PyHash(it[2])>> : it \in items}

HashableItems(r) ==
    \A it \in Items(r) : Hashable(it[2])

cache_key(p, r) ==
    <<ProfileId(p), HashFrozenset(Items(r))>>

(***************************************************************************)
(* cachetools.TTLCache as the code uses it: `in`, [] and []=.              *)
(***************************************************************************)
CacheContains(c, k, t) ==
    \E i \in 1..Len(c) : c[i].key = k /\ t < c[i].expires

CacheGet(c, k) ==
    c[CHOOSE i \in 1..Len(c) : c[i].key = k].val

\* TTLCache.expire
Expire(c, t) ==
    SelectSeq(c, LAMBDA e : t < e.expires)

\* a cache that makes room one entry too early
RECURSIVE Evict_OneEarly(_)
Evict_OneEarly(c) ==
    IF Len(c) + 1 >= CACHE_MAXSIZE /\ Len(c) > 0 THEN Evict_OneEarly(Tail(c)) ELSE c

\* Cache.__setitem__ evicts with popitem (the oldest link) until the new item fits
RECURSIVE Evict(_)
Evict(c) ==
    IF Len(c) + 1 > CACHE_MAXSIZE /\ Len(c) > 0 THEN Evict(Tail(c)) ELSE c

\* a cache that does not take results under three quarters of confidence
CacheSet_SkipsLowConfidence(c, k, v, t) ==
    LET live == SelectSeq(c, LAMBDA e : t < e.expires)
        e == [key |-> k, val |-> v, expires |-> t + CACHE_TTL_SECONDS]
    IN IF 4 * v.confidence_score < 3 * 100 * 100
       THEN live
       ELSE Append(SelectSeq(live, LAMBDA x : x.key # k), e)

\* a cache that keeps the value a key already has
CacheSet_KeepsFirst(c, k, v, t) ==
    LET live == SelectSeq(c, LAMBDA e : t < e.expires)
        e == [key |-> k, val |-> v, expires |-> t + CACHE_TTL_SECONDS]
    IN IF \E i \in 1..Len(live) : live[i].key = k
       THEN live
       ELSE Append(live, e)

\* TTLCache.__setitem__
CacheSet(c, k, v, t) ==
    LET live == Expire(c, t)
        e == [key |-> k, val |-> v, expires |-> t + CACHE_TTL_SECONDS]
    IN IF \E i \in 1..Len(live) : live[i].key = k
       THEN Append(SelectSeq(live, LAMBDA x : x.key # k), e)
       ELSE Append(Evict(live), e)

(***************************************************************************)
(* Numbers.  A float x is the integer x * Unit: four decimal places, two   *)
(* more than round(x, 2) keeps.                                            *)
(***************************************************************************)
Unit ==
    100 * 100

\* the multiple of step nearest to a / b (a >= 0, b > 0), a tie going to the
\* even multiple as Python's round() does
RoundDiv(a, b, step) ==
    LET q == a \div (b * step)
        twice == 2 * (a - q * b * step)
    IN IF twice > b * step \/ (twice = b * step /\ q % 2 = 1)
       THEN (q + 1) * step
       ELSE q * step

\* round(x, 2)
Round2(x) ==
    RoundDiv(x, 1, Unit \div 100)

Max(a, b) ==
    IF a > b THEN a ELSE b

\* the smaller of two numbers (Python's min)
Least(a, b) ==
    IF b < a THEN b ELSE a

(***************************************************************************)
(* SkillMatcher.                                                           *)
(***************************************************************************)
SeqToSet(s) ==
    {s[i] : i \in 1..Len(s)}

\* set(job_requirements.get(k, [])) in analyze_skill_gaps
SkillSet(val) ==
    SeqToSet(val.v)

\* set(None) raises TypeError inside analyze_skill_gaps
SkillMatchRaises(r) ==
    \/ Get(r, "required_skills", VList(<<>>)).t = "none"
    \/ Get(r, "preferred_skills", VList(<<>>)).t = "none"

\* len(matched) / len(skills) if skills else 1.0, as the fraction that
\* round(coverage * 100, 1) / 100 gives
Coverage(matched, skills) ==
    IF skills = {} THEN Unit
    ELSE RoundDiv(Cardinality(matched) * Unit, Cardinality(skills), Unit \div 1000)

\* SkillMatcher.analyze_skill_gaps(candidate_skills, {required, preferred})
analyze_skill_gaps(candidate, required, preferred) ==
    [matched_required |-> required \cap candidate,
     matched_preferred |-> preferred \cap candidate,
     missing_critical |-> required \ candidate,
     missing_preferred |-> preferred \ candidate,
     coverage_required |-> Coverage(required \cap candidate, required),
     coverage_preferred |-> Coverage(preferred \cap candidate, preferred),
     full_required |-> (required = {}) \/ (required \subseteq candidate)]

\* SkillMatcher._calculate_skill_similarity(skills_a, skills_b): the cosine of
\* the TF-IDF vectors (words and pairs of adjacent words, smoothed idf) of
\* ' '.join(skills_a) and ' '.join(skills_b), for the skill lists of the model.
\* A word of one text alone weighs 1 + ln(3/2), a word of both weighs 1:
\*   "java python" / "python":      1 / sqrt(1 + 2 * 1.9753)  = 0.4494
\*   "java python" / "python aws":  1 / (1 + 2 * 1.9753)      = 0.2020
\*   "aws python"  / "python":      1 / sqrt(1 + 2 * 1.9753)  = 0.4494
\*   "aws python"  / "python aws":  2 / (2 + 1.9753)          = 0.5031
\* and texts with no word in common give 0.
calculate_skill_similarity(skills_a, skills_b) ==
    CASE skills_a = {"java", "python"} /\ skills_b = <<"python">>        -> 4494
      [] skills_a = {"java", "python"} /\ skills_b = <<"python", "aws">> -> 2020
      [] skills_a = {"aws", "python"} /\ skills_b = <<"python">>         -> 4494
      [] skills_a = {"aws", "python"} /\ skills_b = <<"python", "aws">>  -> 5031
      [] OTHER -> 0

\* a score that asks for the similarity of every list, empty or not
SkillScore_AlwaysSimilarity(candidate, val) ==
    calculate_skill_similarity(candidate, val.v)

\* required_score and preferred_score: 1.0 for an empty (falsy) list
SkillScore(candidate, val) ==
    IF Truthy(val) THEN calculate_skill_similarity(candidate, val.v) ELSE Unit

\* SkillMatcher._calculate_confidence_score
calculate_confidence_score(match_score, coverage_required, coverage_preferred) ==
    Max(0, Least(Unit, RoundDiv(4 * match_score + 4 * coverage_required
                                  + 2 * coverage_preferred, 10, 1)))

\* SkillMatcher.calculate_skill_match(profile, {'required': ..., 'preferred': ...})
\* with the default weights (required 1.0, preferred 0.5): its match_details
\* and its two scores
skill_match(candidate, required, preferred) ==
    LET gap == analyze_skill_gaps(candidate, SkillSet(required), SkillSet(preferred))
        total_score == RoundDiv(2 * SkillScore(candidate, required)
                                  + SkillScore(candidate, preferred), 3, 1)
    IN [matched_required |-> gap.matched_required,
        missing_critical |-> gap.missing_critical,
        overall_match_score |-> Round2(total_score),
        required_skills_score |-> Round2(SkillScore(candidate, required)),
        preferred_skills_score |-> Round2(SkillScore(candidate, preferred)),
        coverage_required |-> gap.coverage_required,
        coverage_preferred |-> gap.coverage_preferred,
        confidence_score |->
            Round2(calculate_confidence_score(total_score, gap.coverage_required,
                                              gap.coverage_preferred))]

calculate_skill_match(p, r) ==
    skill_match(get_all_skills(p), Get(r, "required_skills", VList(<<>>)),
                Get(r, "preferred_skills", VList(<<>>)))

(***************************************************************************)
(* The AI evaluator (ClaudeClient.analyze_profile), an external service.   *)
(***************************************************************************)
AIResponses ==
    {"strong", "lowconf"}
AIFailures ==
    {"TransientError", "TimeoutError"}
AIOutcomes ==
    AIResponses \cup AIFailures

\* match_score and confidence_score of a response: numbers in 0..100
\* (ClaudeClient._process_response clamps them to that range)
ai_match_score(out) ==
    CASE out = "strong"  -> 85 * Unit
      [] out = "lowconf" -> 60 * Unit
      [] OTHER           -> 0

ai_confidence_score(out) ==
    CASE out = "strong"  -> 90 * Unit
      [] out = "lowconf" -> Unit \div 2
      [] OTHER           -> 0

\* ClaudeClient.analyze_profile raises ValueError at once on empty inputs
ClientRejects(r) ==
    Items(r) = {}

\* a result dict is an object: oid is its identity (the call that built it)
\* and edited tells whether a caller changed it after it was built
NoResult ==
    [ai |-> "", matched_required |-> {}, missing_critical |-> {},
     skill_gaps |-> {}, full_coverage |-> FALSE, profile_id |-> "",
     overall_match_score |-> 0, confidence_score |-> 0, keys |-> {},
     oid |-> 0, edited |-> FALSE]

\* analysis_engine.py:29
MIN_CONFIDENCE_SCORE ==
    (75 * Unit) \div 100

\* the two scores of combine_analysis_results
EngineScores(ai_match, ai_confidence, skill_score, skill_confidence) ==
    [overall_match_score |-> RoundDiv(ai_match + skill_score, 2, Unit \div 100),
     confidence_score |-> Round2(Least(ai_confidence, skill_confidence))]

\* AnalysisEngine.combine_analysis_results(ai_analysis, skill_analysis, gap_analysis);
\* gap_analysis is analyze_skill_gaps(skills, job_requirements), which reads the
\* keys 'required' and 'preferred' of the job requirements themselves
combine_analysis_results(ai, p, r) ==
    LET skill == calculate_skill_match(p, r)
        gap == analyze_skill_gaps(get_all_skills(p),
                                  SkillSet(Get(r, "required", VList(<<>>))),
                                  SkillSet(Get(r, "preferred", VList(<<>>))))
        scores == EngineScores(ai_match_score(ai), ai_confidence_score(ai),
                               skill.overall_match_score, skill.confidence_score)
    IN [ai |-> ai,
        matched_required |-> skill.matched_required,
        missing_critical |-> skill.missing_critical,
        skill_gaps |-> gap.missing_critical,
        full_coverage |-> gap.full_required,
        profile_id |-> "",
        overall_match_score |-> scores.overall_match_score,
        confidence_score |-> scores.confidence_score,
        keys |-> {"overall_match_score", "confidence_score", "ai_analysis",
                  "skill_analysis", "gap_analysis", "metadata"},
        oid |-> 0, edited |-> FALSE]

(***************************************************************************)
(* Tasks.                                                                  *)
(***************************************************************************)
Finished(tk) ==
    tk.st \in {"returned", "raised"}

FinishedIds(ts) ==
    {i \in 1..Len(ts) : Finished(ts[i])}

\* a call as it starts; pre, tstart, cached and free record what the call found
\* (the calls finished before it, the time, whether its key was live in the
\* cache, the free permits), got what it returned, as it was at that moment,
\* and ins the rank of its write among the writes to the engine's cache (0: it
\* wrote nothing), and under the steps it ran inside `async with
\* self._concurrency_limiter`; they are read by the properties only
NewTask(S, via, owner, pos, p, r) ==
    [id |-> Len(S.tasks) + 1,
     via |-> via, owner |-> owner, pos |-> pos, p |-> p, r |-> r,
     st |-> "new", hit |-> FALSE, calls |-> 0, aiout |-> "", res |-> NoResult,
     got |-> NoResult, ins |-> 0, under |-> {},
     exc |-> "", held |-> FALSE,
     pre |-> IF owner = "single" THEN FinishedIds(S.tasks) ELSE {},
     tstart |-> now, tend |-> 0,
     cached |-> /\ p # "none"
                /\ HashableItems(r)
                /\ CacheContains(IF via = "engine" THEN cache ELSE acache,
                                 cache_key(p, r), now),
     free |-> S.permits]

Raise(tk, e) ==
    [tk EXCEPT !.st = "raised", !.exc = e, !.held = FALSE, !.tend = now]

Return(tk, res) ==
    [tk EXCEPT !.st = "returned", !.res = res, !.got = res, !.held = FALSE,
               !.tend = now]

\* `async with self._concurrency_limiter` entered: the evaluator is called; it
\* raises at once on empty requirements, else the task suspends on the call
EnterAI(tk) ==
    IF ClientRejects(tk.r)
    THEN Raise([tk EXCEPT !.calls = @ + 1, !.aiout = "ValueError",
                          !.under = {"analyze_profile"}], "ValueError")
    ELSE [tk EXCEPT !.st = "ai", !.calls = @ + 1, !.held = TRUE,
                    !.under = {"analyze_profile"}]

\* a limiter that never blocks
CanAcquire_Unlimited(S) ==
    TRUE

\* asyncio.Semaphore.acquire() returns without suspending when a permit is free
CanAcquire(S) ==
    S.permits > 0

\* an analyze_single_profile that enters the limiter before it looks at the cache
StartEngineTask_LimiterFirst(S, owner, pos, p, r) ==
    LET tk == NewTask(S, "engine", owner, pos, p, r)
        id == Len(S.tasks) + 1
    IN IF p = "none"
       THEN [S EXCEPT !.tasks = Append(@, Raise(tk, "AttributeError"))]
       ELSE IF ~HashableItems(r)
       THEN [S EXCEPT !.tasks = Append(@, Raise(tk, "TypeError"))]
       ELSE IF S.permits <= 0
       THEN [S EXCEPT !.tasks = Append(@, [tk EXCEPT !.st = "waiting"]),
                      !.waiters = Append(@, id)]
       ELSE IF CacheContains(cache, cache_key(p, r), now)
       THEN [S EXCEPT !.tasks = Append(@,
                Return([tk EXCEPT !.hit = TRUE], CacheGet(cache, cache_key(p, r))))]
       ELSE LET tk2 == EnterAI(tk)
            IN [S EXCEPT !.tasks = Append(@, tk2),
                         !.permits = IF tk2.st = "ai" THEN @ - 1 ELSE @]

\* analyze_single_profile from its first line to its first suspension, on the
\* engine state S = [tasks, permits, waiters]
StartEngineTask(S, owner, pos, p, r) ==
    LET tk == NewTask(S, "engine", owner, pos, p, r)
        id == Len(S.tasks) + 1
    IN IF p = "none"
       THEN [S EXCEPT !.tasks = Append(@, Raise(tk, "AttributeError"))]
       ELSE IF ~HashableItems(r)
       THEN [S EXCEPT !.tasks = Append(@, Raise(tk, "TypeError"))]
       ELSE IF CacheContains(cache, cache_key(p, r), now)
       THEN [S EXCEPT !.tasks = Append(@,
                Return([tk EXCEPT !.hit = TRUE], CacheGet(cache, cache_key(p, r))))]
       ELSE IF CanAcquire(S)
       THEN LET tk2 == EnterAI(tk)
            IN [S EXCEPT !.tasks = Append(@, tk2),
                         !.permits = IF tk2.st = "ai" THEN @ - 1 ELSE @]
       ELSE [S EXCEPT !.tasks = Append(@, [tk EXCEPT !.st = "waiting"]),
                      !.waiters = Append(@, id)]

EngineState ==
    [tasks |-> tasks, permits |-> permits, waiters |-> waiters]

SetEngineState(S) ==
    /\ tasks' = S.tasks
    /\ permits' = S.permits
    /\ waiters' = S.waiters

(***************************************************************************)
(* AnalysisEngine.analyze_single_profile                                   *)
(***************************************************************************)
Singles ==
    {i \in 1..Len(tasks) : tasks[i].owner = "single"}

\* a direct call of analyze_single_profile(p, r), up to its first suspension
SingleCall(P, R, max) ==
    /\ Cardinality(Singles) < max
    /\ \E p \in P, r \in R :
          SetEngineState(StartEngineTask(EngineState, "single", 0, p, r))
    /\ UNCHANGED <<cache, acache, batch, now, calc>>

\* a caller that awaits each analyze_single_profile before it makes the next
SequentialCall(P, R, max) ==
    /\ \A t \in 1..Len(tasks) : Finished(tasks[t])
    /\ SingleCall(P, R, max)

\* a semaphore that wakes a waiter only while a second permit is free
WakeWaiter_NeedsSpare ==
    /\ waiters # <<>>
    /\ permits > 1
    /\ LET t == Head(waiters)
           tk2 == EnterAI(tasks[t])
       IN /\ tasks' = [tasks EXCEPT ![t] = tk2]
          /\ permits' = IF tk2.st = "ai" THEN permits - 1 ELSE permits
    /\ waiters' = Tail(waiters)
    /\ UNCHANGED <<cache, acache, batch, now, calc>>

\* the semaphore hands a free permit to the first waiter, which then calls
\* the evaluator (the cache is not looked at again)
WakeWaiter ==
    /\ waiters # <<>>
    /\ permits > 0
    /\ LET t == Head(waiters)
           tk2 == EnterAI(tasks[t])
       IN /\ tasks' = [tasks EXCEPT ![t] = tk2]
          /\ permits' = IF tk2.st = "ai" THEN permits - 1 ELSE permits
    /\ waiters' = Tail(waiters)
    /\ UNCHANGED <<cache, acache, batch, now, calc>>

\* an analyze_single_profile that caches an empty result when the analysis fails
FinishEngineTask_CachesFailure(tk, out) ==
    IF out \in AIFailures \/ SkillMatchRaises(tk.r)
    THEN [task |-> Raise([tk EXCEPT !.aiout = out],
                         IF out \in AIFailures THEN out ELSE "TypeError"),
          cache |-> CacheSet(cache, cache_key(tk.p, tk.r), NoResult, now)]
    ELSE LET res == [combine_analysis_results(out, tk.p, tk.r) EXCEPT !.oid = tk.id]
         IN [task |-> Return([tk EXCEPT !.aiout = out], res),
             cache |-> CacheSet(cache, cache_key(tk.p, tk.r), res, now)]

\* the writes made to the engine's cache so far
CacheWrites ==
    Cardinality({t \in 1..Len(tasks) : tasks[t].ins > 0})

\* the rest of analyze_single_profile once the evaluator answered `out`:
\* skill matching, gap analysis, combination, cache write, release, return
FinishEngineTask(tk, out) ==
    IF out \in AIFailures
    THEN [task |-> Raise([tk EXCEPT !.aiout = out], out), cache |-> cache]
    ELSE IF SkillMatchRaises(tk.r)
    THEN [task |-> Raise([tk EXCEPT !.aiout = out,
                                    !.under = @ \cup {"calculate_skill_match"}],
                         "TypeError"),
          cache |-> cache]
    ELSE LET res == [combine_analysis_results(out, tk.p, tk.r) EXCEPT !.oid = tk.id]
         IN [task |-> Return([tk EXCEPT !.aiout = out, !.ins = CacheWrites + 1,
                                        !.under = @ \cup {"calculate_skill_match",
                                                          "analyze_skill_gaps",
                                                          "combine_analysis_results",
                                                          "cache_write"}],
                             res),
             cache |-> CacheSet(cache, cache_key(tk.p, tk.r), res, now)]

\* an evaluator call whose failure leaves the permit taken
AIComplete_LeaksOnFailure(outs) ==
    \E t \in 1..Len(tasks), out \in outs :
       /\ tasks[t].via = "engine"
       /\ tasks[t].st = "ai"
       /\ LET f == FinishEngineTask(tasks[t], out)
          IN /\ tasks' = [tasks EXCEPT ![t] = f.task]
             /\ cache' = f.cache
       /\ permits' = IF out \in AIFailures THEN permits ELSE permits + 1
       /\ UNCHANGED <<waiters, acache, batch, now, calc>>

\* an analysis that keeps its permit when the skill matcher raises
AIComplete_LeaksOnMatcherError(outs) ==
    \E t \in 1..Len(tasks), out \in outs :
       /\ tasks[t].via = "engine"
       /\ tasks[t].st = "ai"
       /\ LET f == FinishEngineTask(tasks[t], out)
          IN /\ tasks' = [tasks EXCEPT ![t] = f.task]
             /\ cache' = f.cache
             /\ permits' = IF f.task.exc = "TypeError" THEN permits ELSE permits + 1
       /\ UNCHANGED <<waiters, acache, batch, now, calc>>

\* the evaluator call of engine task t ends with `out`; leaving the
\* `async with` block, by return or by exception, releases the permit
AIComplete(outs) ==
    \E t \in 1..Len(tasks), out \in outs :
       /\ tasks[t].via = "engine"
       /\ tasks[t].st = "ai"
       /\ LET f == FinishEngineTask(tasks[t], out)
          IN /\ tasks' = [tasks EXCEPT ![t] = f.task]
             /\ cache' = f.cache
       /\ permits' = permits + 1
       /\ UNCHANGED <<waiters, acache, batch, now, calc>>

(***************************************************************************)
(* AnalysisEngine.analyze_profiles under @retry(stop_after_attempt(3))     *)
(***************************************************************************)
Min(a, b) ==
    IF a < b THEN a ELSE b

\* batches = [profiles[i:i + ANALYSIS_BATCH_SIZE] for i in range(0, len, SIZE)]
ChunkOf(i) ==
    ((i - 1) \div ANALYSIS_BATCH_SIZE) + 1

ChunkFirst(k) ==
    (k - 1) * ANALYSIS_BATCH_SIZE + 1

ChunkLast(k, n) ==
    Min(k * ANALYSIS_BATCH_SIZE, n)

\* tasks = [self.analyze_single_profile(profile, ...) for profile in batch] and
\* asyncio.gather(*tasks): the tasks of the chunk start one after the other,
\* each running to its first suspension
RECURSIVE SpawnChunk(_, _, _, _, _)
SpawnChunk(S, ps, r, i, last) ==
    IF i > last THEN S
    ELSE SpawnChunk(StartEngineTask(S, "batch", i, ps[i], r), ps, r, i + 1, last)

\* tenacity: an exception out of the body is retried until the attempt
\* number reaches the ceiling, then RetryError is raised (reraise is not set)
AfterException(b) ==
    IF b.attempt >= RETRY_MAX_ATTEMPTS
    THEN [b EXCEPT !.pc = "raised", !.exc = "RetryError"]
    ELSE [b EXCEPT !.pc = "backoff"]

\* one attempt of the body of analyze_profiles, up to the first gather
RunBody(b) ==
    IF b.profiles = <<>> \/ Items(b.r) = {}
    THEN /\ batch' = AfterException([b EXCEPT !.errors = Append(@, "ValueError")])
         /\ UNCHANGED <<tasks, permits, waiters>>
    ELSE /\ batch' = [b EXCEPT !.pc = "gather", !.chunk = 1, !.base = Len(tasks)]
         /\ SetEngineState(SpawnChunk(EngineState, b.profiles, b.r, 1,
                                      ChunkLast(1, Len(b.profiles))))

IdleBatch ==
    [pc |-> "idle", profiles |-> <<>>, r |-> "", attempt |-> 0, chunk |-> 0,
     base |-> 0, results |-> <<>>, exc |-> "", errors |-> <<>>]

BatchInputs(P) ==
    UNION {[1..n -> P] : n \in 0..MaxBatchLen}

BatchCall(P, R) ==
    /\ batch.pc = "idle"
    /\ \E ps \in BatchInputs(P), r \in R :
          RunBody([batch EXCEPT !.profiles = ps, !.r = r, !.attempt = 1])
    /\ UNCHANGED <<cache, acache, now, calc>>

\* the backoff sleep is over: tenacity calls the function again
BatchRetry ==
    /\ batch.pc = "backoff"
    /\ RunBody([batch EXCEPT !.attempt = @ + 1])
    /\ UNCHANGED <<cache, acache, now, calc>>

\* the task of the batch at input position i
BatchTask(i) ==
    batch.base + (i - ChunkFirst(batch.chunk)) + 1

\* a join that returns with the first task that is done
GatherReady_FirstCompleted(lo, hi) ==
    \E i \in lo..hi : Finished(tasks[BatchTask(i)])

\* gather returns once every task of the chunk is done
GatherReady(lo, hi) ==
    \A i \in lo..hi : Finished(tasks[BatchTask(i)])

\* a result loop that stops at the first exception of the chunk
RECURSIVE Collect_StopAtException(_, _, _)
Collect_StopAtException(acc, i, hi) ==
    IF i > hi \/ tasks[batch.base + (i - ((batch.chunk - 1) * ANALYSIS_BATCH_SIZE + 1)) + 1].st # "returned"
    THEN acc
    ELSE Collect_StopAtException(
            Append(acc, tasks[batch.base + (i - ((batch.chunk - 1) * ANALYSIS_BATCH_SIZE + 1)) + 1].res),
            i + 1, hi)

\* a result loop that puts each result in front of the ones before it
RECURSIVE Collect_NewestFirst(_, _, _)
Collect_NewestFirst(acc, i, hi) ==
    IF i > hi THEN acc
    ELSE Collect_NewestFirst(
            IF tasks[batch.base + (i - ((batch.chunk - 1) * ANALYSIS_BATCH_SIZE + 1)) + 1].st = "returned"
            THEN <<tasks[batch.base + (i - ((batch.chunk - 1) * ANALYSIS_BATCH_SIZE + 1)) + 1].res>> \o acc
            ELSE acc,
            i + 1, hi)

\* `for result in batch_results`: exceptions are logged, results appended
RECURSIVE Collect(_, _, _)
Collect(acc, i, hi) ==
    IF i > hi THEN acc
    ELSE Collect(IF tasks[BatchTask(i)].st = "returned"
                 THEN Append(acc, tasks[BatchTask(i)].res) ELSE acc, i + 1, hi)

\* gather(return_exceptions=True) returns; the loop goes on to the next chunk
\* or analyze_profiles returns all_results
BatchGather ==
    /\ batch.pc = "gather"
    /\ LET n == Len(batch.profiles)
           lo == ChunkFirst(batch.chunk)
           hi == ChunkLast(batch.chunk, n)
           all == Collect(batch.results, lo, hi)
       IN /\ GatherReady(lo, hi)
          /\ IF hi < n
             THEN /\ batch' = [batch EXCEPT !.results = all, !.chunk = @ + 1,
                                            !.base = Len(tasks)]
                  /\ SetEngineState(SpawnChunk(EngineState, batch.profiles, batch.r,
                                               hi + 1, ChunkLast(batch.chunk + 1, n)))
             ELSE /\ batch' = [batch EXCEPT !.results = all, !.pc = "returned"]
                  /\ UNCHANGED <<tasks, permits, waiters>>
    /\ UNCHANGED <<cache, acache, now, calc>>

(***************************************************************************)
(* ProfileAnalyzer.analyze_profile (use_cache left at its default, True)   *)
(***************************************************************************)
\* Profile.validate_profile_data(): non-empty identity and name
validate_profile_data(p) ==
    ProfileId(p) # "" /\ FullName(p) # ""

\* an experience score without the floor for over-qualified candidates
calculate_experience_match_NoFloor(total, min_required, max_required) ==
    IF total < min_required
    THEN (total * 100 * 100) \div min_required
    ELSE IF max_required.t = "int" /\ max_required.v[1] # 0
            /\ total > max_required.v[1]
    THEN IF total >= 2 * max_required.v[1] THEN 0
         ELSE 100 * 100 - ((total - max_required.v[1]) * 100 * 100)
                             \div max_required.v[1]
    ELSE 100 * 100

\* ProfileAnalyzer._calculate_experience_match(total_experience, min_required,
\* max_required): months, max_required None or a number
calculate_experience_match(total, min_required, max_required) ==
    IF total < min_required
    THEN Max(0, RoundDiv(total * Unit, min_required, 1))
    ELSE IF Truthy(max_required) /\ total > max_required.v[1]
    THEN Max((7 * Unit) \div 10,
             Unit - RoundDiv((total - max_required.v[1]) * Unit, max_required.v[1], 1))
    ELSE Unit

\* overall_match_score and confidence_score of analyze_profile, with
\* EXPERIENCE_WEIGHT 0.3, SKILLS_WEIGHT 0.4 and AI_ANALYSIS_WEIGHT 0.3
AnalyzerScores(experience_score, skill_score, skill_confidence, ai_match, ai_confidence) ==
    [overall_match_score |->
         RoundDiv(100 * (3 * experience_score + 4 * skill_score + 3 * ai_match),
                  10, Unit \div 100),
     confidence_score |-> Round2(100 * Least(skill_confidence, ai_confidence))]

\* the dict built at the end of ProfileAnalyzer.analyze_profile
analysis_results(ai, p, r) ==
    LET skill == calculate_skill_match(p, r)
        experience_score ==
            calculate_experience_match(get_total_experience(p),
                                       Get(r, "min_experience", VInt(0)).v[1],
                                       Get(r, "max_experience", VNone))
        scores == AnalyzerScores(experience_score, skill.overall_match_score,
                                 skill.confidence_score, ai_match_score(ai),
                                 ai_confidence_score(ai))
    IN [ai |-> ai,
        matched_required |-> skill.matched_required,
        missing_critical |-> skill.missing_critical,
        skill_gaps |-> {},
        full_coverage |-> FALSE,
        profile_id |-> ProfileId(p),
        overall_match_score |-> scores.overall_match_score,
        confidence_score |-> scores.confidence_score,
        keys |-> {"profile_id", "overall_match_score", "confidence_score",
                  "experience_analysis", "skill_analysis", "ai_insights",
                  "metadata"},
        oid |-> 0, edited |-> FALSE]

\* analyze_profile from its first line to the evaluator call
StartAnalyzerTask(p, r) ==
    LET tk == NewTask(EngineState, "analyzer", "single", 0, p, r)
    IN IF p = "none"
       THEN Raise(tk, "AttributeError")
       ELSE IF ~HashableItems(r)
       THEN Raise(tk, "TypeError")
       ELSE IF CacheContains(acache, cache_key(p, r), now)
       THEN Return([tk EXCEPT !.hit = TRUE], CacheGet(acache, cache_key(p, r)))
       ELSE IF ~validate_profile_data(p)
       THEN Raise(tk, "ValueError")
       ELSE IF ~Truthy(Get(r, "required_skills", VNone))
       THEN Raise(tk, "ValueError")
       ELSE IF SkillMatchRaises(r)
       THEN Raise(tk, "TypeError")
       ELSE EnterAI(tk)

AnalyzerCall(P, R, max) ==
    /\ Cardinality(Singles) < max
    /\ \E p \in P, r \in R :
          tasks' = Append(tasks, [StartAnalyzerTask(p, r) EXCEPT !.held = FALSE,
                                                            !.under = {}])
    /\ UNCHANGED <<permits, waiters, cache, acache, batch, now, calc>>

\* the rest of analyze_profile once the evaluator answered `out`
FinishAnalyzerTask(tk, out) ==
    IF out \in AIFailures
    THEN [task |-> Raise([tk EXCEPT !.aiout = out], out), cache |-> acache]
    ELSE LET res == [analysis_results(out, tk.p, tk.r) EXCEPT !.oid = tk.id]
         IN [task |-> Return([tk EXCEPT !.aiout = out], res),
             cache |-> CacheSet(acache, cache_key(tk.p, tk.r), res, now)]

AnalyzerAIComplete(outs) ==
    \E t \in 1..Len(tasks), out \in outs :
       /\ tasks[t].via = "analyzer"
       /\ tasks[t].st = "ai"
       /\ LET f == FinishAnalyzerTask(tasks[t], out)
          IN /\ tasks' = [tasks EXCEPT ![t] = f.task]
             /\ acache' = f.cache
       /\ UNCHANGED <<permits, waiters, cache, batch, now, calc>>

(***************************************************************************)
(* The caller of a direct call changes the dict it was given.  `return     *)
(* self._analysis_cache[cache_key]` and `self._analysis_cache[cache_key] = *)
(* combined_results; return combined_results` hand out the very object the *)
(* cache holds, so the change shows through every reference to it.         *)
(***************************************************************************)
Mutated(v, o) ==
    IF v.oid = o THEN [v EXCEPT !.edited = TRUE] ELSE v

CacheMutated(c, o) ==
    [i \in 1..Len(c) |-> [c[i] EXCEPT !.val = Mutated(@, o)]]

CallerMutates ==
    \E t \in 1..Len(tasks) :
       /\ tasks[t].st = "returned"
       /\ tasks[t].owner = "single"
       /\ ~tasks[t].res.edited
       /\ LET o == tasks[t].res.oid
          IN /\ tasks' = [i \in 1..Len(tasks) |->
                            [tasks[i] EXCEPT !.res = Mutated(@, o)]]
             /\ cache' = CacheMutated(cache, o)
             /\ acache' = CacheMutated(acache, o)
             /\ batch' = [batch EXCEPT !.results =
                            [i \in 1..Len(@) |-> Mutated(@[i], o)]]
       /\ UNCHANGED <<permits, waiters, now, calc>>

(***************************************************************************)
(* The clock.                                                              *)
(***************************************************************************)
Tick ==
    /\ now + TickSeconds <= MaxTime
    /\ now' = now + TickSeconds
    /\ UNCHANGED <<tasks, permits, waiters, cache, acache, batch, calc>>

(***************************************************************************)
(* Specifications.                                                         *)
(***************************************************************************)
\* no pure function under observation
NoCalc ==
    [fn |-> "", args |-> <<>>, out |-> <<>>, done |-> FALSE]

\* the engine and the analyzer as constructed
Constructed ==
    /\ tasks = <<>>
    /\ permits = MAX_CONCURRENT_ANALYSES
    /\ waiters = <<>>
    /\ cache = <<>>
    /\ acache = <<>>
    /\ batch = IdleBatch
    /\ now = 0

Init ==
    /\ Constructed
    /\ calc = NoCalc

\* one analyze_profiles call and direct analyze_single_profile calls, concurrently
Next ==
    \/ BatchCall({"p1", "p2"}, {"R_tup", "R_list", "R_empty"})
    \/ BatchRetry
    \/ BatchGather
    \/ SingleCall({"p1"}, {"R_tup"}, MaxSingles)
    \/ WakeWaiter
    \/ AIComplete({"strong", "TransientError"})

Spec ==
    Init /\ [][Next]_vars

\* direct calls of analyze_single_profile and of ProfileAnalyzer.analyze_profile
\* over every shape of input, with the clock running
EngineProfiles ==
    {"p1", "none"}

EngineReqs ==
    {"R_list", "R_tup", "R_tup2", "R_noreq", "R_nopref", "R_empty"}

AnalyzerProfiles ==
    {"p1", "p1_noname", "none"}

AnalyzerReqs ==
    {"R_list", "R_tup", "R_noreq", "R_nopref", "R_empty"}

NextCalls ==
    \/ SingleCall(EngineProfiles, EngineReqs, MaxCalls)
    \/ AnalyzerCall(AnalyzerProfiles, AnalyzerReqs, MaxCalls)
    \/ WakeWaiter
    \/ AIComplete({"strong", "TransientError"})
    \/ AnalyzerAIComplete({"strong", "TransientError"})
    \/ Tick

SpecCalls ==
    Init /\ [][NextCalls]_vars

\* one analyze_profiles call on its own, the evaluator answering, answering
\* with low confidence, or timing out
NextBatch ==
    \/ BatchCall({"p1", "p2"}, {"R_tup", "R_tup2"})
    \/ BatchRetry
    \/ BatchGather
    \/ WakeWaiter
    \/ AIComplete({"strong", "lowconf", "TimeoutError"})

SpecBatch ==
    Init /\ [][NextBatch]_vars

\* direct calls whose callers change the results they were given
NextAlias ==
    \/ SingleCall({"p1"}, {"R_tup", "R_tup2"}, MaxCalls)
    \/ AnalyzerCall({"p1"}, {"R_tup", "R_tup2"}, MaxCalls)
    \/ WakeWaiter
    \/ AIComplete({"strong"})
    \/ AnalyzerAIComplete({"strong"})
    \/ CallerMutates

SpecAlias ==
    Init /\ [][NextAlias]_vars

\* enough direct calls one after the other, over enough keys, to fill the
\* engine's cache and go one past it, with the clock running
NextEvict ==
    \/ SequentialCall({"p1", "p2"}, {"R_tup", "R_tup2"}, CACHE_MAXSIZE + 2)
    \/ AIComplete({"strong"})
    \/ Tick

SpecEvict ==
    Init /\ [][NextEvict]_vars

(***************************************************************************)
(* Properties.                                                             *)
(***************************************************************************)
BatchTasks ==
    {t \in 1..Len(tasks) : tasks[t].owner = "batch"}

EngineTasks ==
    {t \in 1..Len(tasks) : tasks[t].via = "engine"}

\* the batch tasks at input positions lo..hi that returned, in input order
RECURSIVE ResultsInOrder(_, _)
ResultsInOrder(i, n) ==
    IF i > n THEN <<>>
    ELSE LET ts == {t \in BatchTasks : tasks[t].pos = i /\ tasks[t].st = "returned"}
         IN (IF ts = {} THEN <<>> ELSE <<tasks[CHOOSE t \in ts : TRUE].res>>)
            \o ResultsInOrder(i + 1, n)

\* C1: analyze_profiles on a non-empty batch with non-empty requirements never
\* raises; when it returns, every profile of the batch has been analysed to its
\* own success or failure by exactly one task, and the returned list holds
\* exactly the results of the successful ones.
C1_PartialFailure ==
    (batch.profiles # <<>> /\ Items(batch.r) # {}) =>
       /\ batch.pc \notin {"raised", "backoff"}
       /\ batch.errors = <<>>
       /\ batch.pc = "returned" =>
             /\ \A i \in 1..Len(batch.profiles) :
                   /\ Cardinality({t \in BatchTasks : tasks[t].pos = i}) = 1
                   /\ \A t \in BatchTasks : tasks[t].pos = i =>
                         /\ Finished(tasks[t])
                         /\ tasks[t].p = batch.profiles[i]
             /\ Len(batch.results) =
                   Cardinality({t \in BatchTasks : tasks[t].st = "returned"})
             /\ batch.results = ResultsInOrder(1, Len(batch.profiles))

\* a batch returned although a task of its first chunk failed, with a sibling
\* of the same chunk and a task of the next chunk both successful
C1_Witness ==
    /\ batch.pc = "returned"
    /\ \E a, b, c \in BatchTasks :
          /\ tasks[a].st = "raised" /\ tasks[a].exc = "TransientError"
          /\ tasks[b].st = "returned" /\ tasks[b].pos > tasks[a].pos
          /\ (tasks[a].pos - 1) \div ANALYSIS_BATCH_SIZE
                = (tasks[b].pos - 1) \div ANALYSIS_BATCH_SIZE
          /\ tasks[c].st = "returned"
          /\ (tasks[c].pos - 1) \div ANALYSIS_BATCH_SIZE
                > (tasks[a].pos - 1) \div ANALYSIS_BATCH_SIZE

\* C2: at any time at most MAX_CONCURRENT_ANALYSES engine analyses, started
\* directly or by a batch, are inside the evaluator call.
C2_LimiterBound ==
    Cardinality({t \in EngineTasks : tasks[t].st = "ai"}) <= MAX_CONCURRENT_ANALYSES

\* the limiter is full with a direct call and a batch task contending for it
C2_Witness ==
    /\ Cardinality({t \in EngineTasks : tasks[t].st = "ai"}) = MAX_CONCURRENT_ANALYSES
    /\ waiters # <<>>
    /\ \E t, u \in EngineTasks :
          /\ tasks[t].owner = "single" /\ tasks[u].owner = "batch"
          /\ {tasks[t].st, tasks[u].st} = {"ai", "waiting"}

\* C5: analyze_profiles with an empty profile list or empty job requirements is
\* attempted once and raises the ValueError itself, with no task started, no
\* evaluator call and the cache untouched.
C5_ValidationNotRetried ==
    (batch.pc # "idle" /\ (batch.profiles = <<>> \/ Items(batch.r) = {})) =>
       /\ batch.attempt <= 1
       /\ batch.pc = "raised" => batch.exc = "ValueError"
       /\ BatchTasks = {}

\* C7: an engine analysis ends with a transient evaluator failure only after
\* RETRY_MAX_ATTEMPTS evaluator calls were made for it.
C7_RetriedToCeiling ==
    \A t \in EngineTasks :
       (tasks[t].st = "raised" /\ tasks[t].exc \in AIFailures) =>
          tasks[t].calls = RETRY_MAX_ATTEMPTS

\* C9: an engine call whose key is live in the cache when it starts returns the
\* cached result in that same step, whatever the number of free permits: it
\* never waits for the limiter, never holds a permit and never calls the
\* evaluator; the permits not available are exactly those held by tasks inside
\* the evaluator call.
C9_HitSkipsLimiter ==
    /\ \A t \in EngineTasks :
          tasks[t].cached =>
             /\ tasks[t].st = "returned"
             /\ tasks[t].hit
             /\ tasks[t].calls = 0
             /\ ~tasks[t].held
             /\ \A i \in 1..Len(waiters) : waiters[i] # t
    /\ permits = MAX_CONCURRENT_ANALYSES
                   - Cardinality({t \in EngineTasks : tasks[t].held})

\* a cache hit was served while no permit was free
C9_Witness ==
    \E t \in EngineTasks :
       /\ tasks[t].cached
       /\ tasks[t].free = 0
       /\ tasks[t].st = "returned"
       /\ permits = 0

DirectCalls ==
    {t \in 1..Len(tasks) : tasks[t].owner = "single"}

\* a profile with identity and name, and requirements with a non-empty
\* required_skills and skill lists that are lists or tuples
WellFormed(p, r) ==
    /\ ProfileId(p) # "" /\ FullName(p) # ""
    /\ Truthy(Get(r, "required_skills", VNone))
    /\ ~SkillMatchRaises(r)

\* direct call b started after direct call a had finished, within the TTL
Sequential(a, b) ==
    /\ a \in DirectCalls /\ b \in DirectCalls
    /\ tasks[a].via = "engine" /\ tasks[b].via = "engine"
    /\ a \in tasks[b].pre
    /\ tasks[b].tstart < tasks[a].tend + CACHE_TTL_SECONDS

\* C3: of two sequential analyze_single_profile calls with the same well-formed
\* profile and job requirements (required_skills a list or a tuple), the second
\* within the TTL and the evaluator not failing, both return, the results are
\* equal and the evaluator was called exactly once in total.
C3_SecondCallCached ==
    \A a, b \in EngineTasks :
       ( /\ Sequential(a, b)
         /\ tasks[a].p = tasks[b].p /\ tasks[a].r = tasks[b].r
         /\ WellFormed(tasks[a].p, tasks[a].r)
         /\ tasks[a].aiout \notin AIFailures
         /\ Finished(tasks[b]) )
       => /\ tasks[a].st = "returned"
          /\ tasks[b].st = "returned"
          /\ tasks[b].res = tasks[a].res
          /\ tasks[a].calls + tasks[b].calls = 1

\* C4: after a successful analyze_single_profile, a later call within the TTL
\* for the same profile with job requirements that differ in a key or a value
\* misses the cache and calls the evaluator.
C4_ChangedRequirementsMiss ==
    \A a, b \in EngineTasks :
       ( /\ Sequential(a, b)
         /\ tasks[a].p = tasks[b].p
         /\ Items(tasks[a].r) # Items(tasks[b].r)
         /\ tasks[a].st = "returned"
         /\ tasks[b].st # "waiting" )
       => /\ ~tasks[b].hit
          /\ tasks[b].calls >= 1

\* C6: a direct analysis (engine or analyzer) of an invalid profile, or with
\* job requirements whose required_skills are missing or empty, raises
\* ValueError without any evaluator call and without a result.
C6_InvalidInputRejected ==
    \A t \in DirectCalls :
       (ProfileId(tasks[t].p) = "" \/ FullName(tasks[t].p) = ""
          \/ ~Truthy(Get(tasks[t].r, "required_skills", VNone)))
       => /\ tasks[t].st = "raised"
          /\ tasks[t].exc = "ValueError"
          /\ tasks[t].calls = 0
          /\ tasks[t].res = NoResult

EvaluatorRaised(tk) ==
    tk.aiout \in AIFailures \cup {"ValueError"}

\* the skill matcher was called for tk and raised
MatcherRaised(tk) ==
    /\ SkillMatchRaises(tk.r)
    /\ \/ tk.via = "engine" /\ tk.aiout \in AIResponses
       \/ /\ tk.via = "analyzer"
          /\ tk.p # "none" /\ HashableItems(tk.r) /\ ~tk.cached
          /\ ProfileId(tk.p) # "" /\ FullName(tk.p) # ""
          /\ Truthy(Get(tk.r, "required_skills", VNone))

\* C8: when the evaluator or the skill matcher raises in a direct analysis
\* (engine or analyzer), the call ends with that exception and without a
\* result, and the step in which it ends leaves both caches as they were.
C8_FailurePropagates ==
    [][\A t \in 1..Len(tasks') :
          (EvaluatorRaised(tasks'[t]) \/ MatcherRaised(tasks'[t])) =>
             /\ tasks'[t].st = "raised"
             /\ tasks'[t].exc = (IF EvaluatorRaised(tasks'[t])
                                 THEN tasks'[t].aiout ELSE "TypeError")
             /\ tasks'[t].res = NoResult
             /\ (t > Len(tasks) \/ tasks[t] # tasks'[t]) =>
                   (cache' = cache /\ acache' = acache)]_vars

\* with a result in the cache, a later engine call failed in the evaluator
C8_Witness ==
    /\ cache # <<>>
    /\ \E t \in DirectCalls :
          /\ tasks[t].via = "engine" /\ tasks[t].st = "raised"
          /\ tasks[t].aiout = "TransientError" /\ tasks[t].pre # {}

(***************************************************************************)
(* The pure functions, each called once on arguments drawn from a bounded  *)
(* set.                                                                    *)
(***************************************************************************)
Call(fn, args) ==
    [fn |-> fn, args |-> args, out |-> <<>>, done |-> FALSE]

Unused ==
    UNCHANGED <<tasks, permits, waiters, cache, acache, batch, now>>

\* _calculate_experience_match(total_experience, min_required, max_required)
ExperienceInputs ==
    {<<total, min_required, max_required>> :
        total \in 0..MaxMonths, min_required \in 0..MaxMonths,
        max_required \in {VNone} \cup {VInt(n) : n \in 0..MaxMonths}}

InitExperience ==
    /\ Constructed
    /\ calc \in {Call("calculate_experience_match", a) : a \in ExperienceInputs}

ApplyExperience ==
    /\ calc.fn = "calculate_experience_match" /\ ~calc.done
    /\ calc' = [calc EXCEPT
                   !.out = calculate_experience_match(calc.args[1], calc.args[2],
                                                      calc.args[3]),
                   !.done = TRUE]
    /\ Unused

SpecExperience ==
    InitExperience /\ [][ApplyExperience]_vars

\* Profile.get_total_experience() on a list of entries, each from one of the
\* days of ExperienceDays to a later one
ExperienceDays ==
    {0, 16, 33, 100, 200}

Entries ==
    {[start |-> d[1], end |-> d[2]] :
        d \in {d \in ExperienceDays \X ExperienceDays : d[1] < d[2]}}

ExperienceLists ==
    UNION {[1..n -> Entries] : n \in 0..MaxEntries}

InitTotalExperience ==
    /\ Constructed
    /\ calc \in {Call("get_total_experience", exps) : exps \in ExperienceLists}

ApplyTotalExperience ==
    /\ calc.fn = "get_total_experience" /\ ~calc.done
    /\ calc' = [calc EXCEPT !.out = total_experience(calc.args), !.done = TRUE]
    /\ Unused

SpecTotalExperience ==
    InitTotalExperience /\ [][ApplyTotalExperience]_vars

\* direct calls racing on one key, on an engine with room for two analyses
\* in the limiter; a third call has to wait
InitRace ==
    /\ tasks = <<>>
    /\ permits = MAX_CONCURRENT_ANALYSES + 1
    /\ waiters = <<>>
    /\ cache = <<>>
    /\ acache = <<>>
    /\ batch = IdleBatch
    /\ now = 0
    /\ calc = NoCalc

NextRace ==
    \/ SingleCall({"p1", "p2"}, {"R_tup"}, MaxCalls + 1)
    \/ WakeWaiter
    \/ AIComplete({"strong", "lowconf"})

SpecRace ==
    InitRace /\ [][NextRace]_vars

\* one analyze_profiles call on the engine with room for two analyses in the
\* limiter: the two tasks of a chunk are in the evaluator together and end in
\* either order, and none of them waits
NextOrder ==
    \/ BatchCall({"p1", "p2"}, {"R_tup", "R_tup2"})
    \/ BatchRetry
    \/ BatchGather
    \/ AIComplete({"strong", "TimeoutError"})

SpecOrder ==
    InitRace /\ [][NextOrder]_vars

\* a batch and direct calls under a fair schedule: the event loop runs every
\* coroutine that is ready (a woken waiter, a gather whose tasks are done, a
\* backoff sleep that is over) and every evaluator call ends; when callers
\* make their calls is up to them
NextLive ==
    \/ BatchCall({"p1"}, {"R_tup"})
    \/ BatchRetry
    \/ BatchGather
    \/ SingleCall({"p1"}, {"R_tup2"}, MaxSingles)
    \/ WakeWaiter
    \/ AIComplete({"strong", "TimeoutError"})

\* an evaluator call is pending: the enabling condition of AIComplete
EvaluatorPending ==
    \E t \in 1..Len(tasks) : tasks[t].via = "engine" /\ tasks[t].st = "ai"

\* the last conjunct is weak fairness of AIComplete, WF_vars(AIComplete(...)),
\* with its enabling condition written out
SpecLive ==
    /\ Init
    /\ [][NextLive]_vars
    /\ WF_vars(BatchRetry)
    /\ WF_vars(BatchGather)
    /\ WF_vars(WakeWaiter)
    /\ \/ []<>(~EvaluatorPending)
       \/ []<><<AIComplete({"strong", "TimeoutError"})>>_vars

\* The score combination of the engine and of the analyzer.  Skill and
\* experience scores are numbers in [0,1]; the evaluator's two scores are
\* numbers in 0..100.
UnitGrid ==
    {0, (6 * Unit) \div 10, (95 * Unit) \div 100, Unit}

PercentGrid ==
    UnitGrid \cup {60 * Unit, 100 * Unit}

EngineScoreInputs ==
    [ai_match : PercentGrid, ai_confidence : PercentGrid,
     skill_score : UnitGrid, skill_confidence : UnitGrid,
     experience_score : {Unit}]

AnalyzerScoreInputs ==
    [ai_match : PercentGrid, ai_confidence : PercentGrid,
     skill_score : UnitGrid, skill_confidence : UnitGrid,
     experience_score : UnitGrid]

InitScores ==
    /\ Constructed
    /\ calc \in {Call("combine_analysis_results", a) : a \in EngineScoreInputs}
                \cup {Call("analyze_profile", a) : a \in AnalyzerScoreInputs}

ApplyEngineScores ==
    /\ calc.fn = "combine_analysis_results" /\ ~calc.done
    /\ calc' = [calc EXCEPT
                   !.out = EngineScores(calc.args.ai_match, calc.args.ai_confidence,
                                        calc.args.skill_score,
                                        calc.args.skill_confidence),
                   !.done = TRUE]
    /\ Unused

ApplyAnalyzerScores ==
    /\ calc.fn = "analyze_profile" /\ ~calc.done
    /\ calc' = [calc EXCEPT
                   !.out = AnalyzerScores(calc.args.experience_score,
                                          calc.args.skill_score,
                                          calc.args.skill_confidence,
                                          calc.args.ai_match,
                                          calc.args.ai_confidence),
                   !.done = TRUE]
    /\ Unused

NextScores ==
    \/ ApplyEngineScores
    \/ ApplyAnalyzerScores

SpecScores ==
    InitScores /\ [][NextScores]_vars

\* the engine and the analyzer combining the same evaluator result, skill
\* match and experience score
InitBothScores ==
    /\ Constructed
    /\ calc \in {Call("both", a) : a \in AnalyzerScoreInputs}

ApplyBothScores ==
    /\ calc.fn = "both" /\ ~calc.done
    /\ calc' = [calc EXCEPT
                   !.out = [engine |-> EngineScores(calc.args.ai_match,
                                                    calc.args.ai_confidence,
                                                    calc.args.skill_score,
                                                    calc.args.skill_confidence),
                            analyzer |-> AnalyzerScores(calc.args.experience_score,
                                                        calc.args.skill_score,
                                                        calc.args.skill_confidence,
                                                        calc.args.ai_match,
                                                        calc.args.ai_confidence)],
                   !.done = TRUE]
    /\ Unused

SpecBothScores ==
    InitBothScores /\ [][ApplyBothScores]_vars

\* The skill gap analysis over skills as they are written.  str.strip() and
\* str.lower() on the strings of the model:
Strip(skill) ==
    CASE skill = " AWS " -> "AWS"
      [] skill = " aws " -> "aws"
      [] skill = "  "    -> ""
      [] OTHER           -> skill

Lower(skill) ==
    CASE skill = "Python" -> "python"
      [] skill = "AWS"    -> "aws"
      [] skill = " AWS "  -> " aws "
      [] OTHER            -> skill

\* a normalisation that trims and keeps the letters as written
normalized_skills_KeepsCase(all_skills) ==
    {Strip(skill) : skill \in {sk \in all_skills : sk # "" /\ Strip(sk) # ""}}

\* Profile.get_all_skills over the combined skills of a profile
normalized_skills(all_skills) ==
    {Lower(Strip(skill)) : skill \in {sk \in all_skills : sk # "" /\ Strip(sk) # ""}}

ProfileSkills ==
    {"Python", "python", " AWS ", "java", "  "}

\* the strings of the model in the order of Python's str comparison
SkillOrder ==
    <<"AWS", "Python", "aws", "java", "python">>

\* sorted(list(...)) of a set of strings
SortedSkills(S) ==
    SelectSeq(SkillOrder, LAMBDA skill : skill \in S)

\* Profile.get_all_skills(), given Profile.skills and the skills of each
\* experience entry
all_skills_list(skills, experience) ==
    SortedSkills(normalized_skills(
        SeqToSet(skills) \cup UNION {SeqToSet(experience[i]) : i \in 1..Len(experience)}))

SkillSeqs(n) ==
    UNION {[1..k -> ProfileSkills \cup {" aws ", ""}] : k \in 0..n}

SkillProfiles ==
    [skills : SkillSeqs(MaxSkills),
     experience : {<<>>, <<<<"Python">>>>, <<<<" aws ", "java">>>>,
                   <<<<"Python">>, <<"java", "">>>>}]

InitAllSkills ==
    /\ Constructed
    /\ calc \in {Call("get_all_skills", a) : a \in SkillProfiles}

ApplyAllSkills ==
    /\ calc.fn = "get_all_skills" /\ ~calc.done
    /\ calc' = [calc EXCEPT
                   !.out = all_skills_list(calc.args.skills, calc.args.experience),
                   !.done = TRUE]
    /\ Unused

SpecAllSkills ==
    InitAllSkills /\ [][ApplyAllSkills]_vars

RequirementSkills ==
    {"Python", "python", "aws"}

GapInputs ==
    [skills : SUBSET ProfileSkills,
     required : SUBSET RequirementSkills,
     preferred : SUBSET RequirementSkills]

InitGaps ==
    /\ Constructed
    /\ calc \in {Call("analyze_skill_gaps", a) : a \in GapInputs}

\* analyze_skill_gaps(profile.get_all_skills(), job_requirements)
ApplyGaps ==
    /\ calc.fn = "analyze_skill_gaps" /\ ~calc.done
    /\ calc' = [calc EXCEPT
                   !.out = analyze_skill_gaps(normalized_skills(calc.args.skills),
                                              calc.args.required,
                                              calc.args.preferred),
                   !.done = TRUE]
    /\ Unused

SpecGaps ==
    InitGaps /\ [][ApplyGaps]_vars

\* The recommendations of the gap analysis.  Iterating over a Python set
\* visits its elements in an order the program does not control:
Orders(S) ==
    {f \in [1..Cardinality(S) -> S] : \A i, j \in 1..Cardinality(S) : f[i] = f[j] => i = j}

Recommendation(skill, priority) ==
    [skill |-> skill, priority |-> priority]

\* a sort on the same key without reverse=True
SortedByPriority_Ascending(recommendations) ==
    SelectSeq(recommendations, LAMBDA x : x.priority # "High")
       \o SelectSeq(recommendations, LAMBDA x : x.priority = "High")

\* sorted(recommendations, key=lambda x: x['priority'] == 'High', reverse=True):
\* the sort is stable, also when reversed, so the entries with key True come
\* first and each group keeps its order
SortedByPriority(recommendations) ==
    SelectSeq(recommendations, LAMBDA x : x.priority = "High")
       \o SelectSeq(recommendations, LAMBDA x : x.priority # "High")

\* SkillMatcher._generate_skill_recommendations, given the order in which the
\* two loops visit missing_required and missing_preferred
generate_skill_recommendations(required_order, preferred_order) ==
    SortedByPriority(
        [i \in 1..Len(required_order) |-> Recommendation(required_order[i], "High")]
        \o [i \in 1..Len(preferred_order) |-> Recommendation(preferred_order[i], "Medium")])

RecommendationInputs ==
    [skills : SUBSET {"python", "aws"},
     required : SUBSET {"python", "aws", "terraform"},
     preferred : SUBSET {"python", "aws", "terraform"}]

InitRecommendations ==
    /\ Constructed
    /\ calc \in {Call("generate_skill_recommendations", a) : a \in RecommendationInputs}

\* analyze_skill_gaps up to its 'recommendations'
ApplyRecommendations ==
    /\ calc.fn = "generate_skill_recommendations" /\ ~calc.done
    /\ LET gap == analyze_skill_gaps(calc.args.skills, calc.args.required,
                                     calc.args.preferred)
       IN \E ro \in Orders(gap.missing_critical), po \in Orders(gap.missing_preferred) :
             calc' = [calc EXCEPT !.out = generate_skill_recommendations(ro, po),
                                  !.done = TRUE]
    /\ Unused

SpecRecommendations ==
    InitRecommendations /\ [][ApplyRecommendations]_vars

\* calculate_skill_match over candidates and requirement lists; a list that is
\* None makes set(None) raise TypeError in the gap analysis
SkillLists ==
    {VNone} \cup {VList(sk) : sk \in {<<>>, <<"python">>, <<"python", "aws">>}}
            \cup {VTuple(sk) : sk \in {<<>>, <<"python">>, <<"python", "aws">>}}

InitSkillMatch ==
    /\ Constructed
    /\ calc \in {Call("calculate_skill_match", a) :
                   a \in [candidate : {{}, {"java", "python"}, {"aws", "python"}},
                          required : SkillLists, preferred : SkillLists]}

\* the result, the exception raised and the lists handed to
\* _calculate_skill_similarity
ApplySkillMatch ==
    /\ calc.fn = "calculate_skill_match" /\ ~calc.done
    /\ LET a == calc.args
           raises == a.required.t = "none" \/ a.preferred.t = "none"
       IN calc' = [calc EXCEPT
                     !.out = [exc |-> IF raises THEN "TypeError" ELSE "",
                              similarity_calls |->
                                  {k \in {"required", "preferred"} : Truthy(a[k])},
                              res |-> IF raises THEN <<>>
                                      ELSE skill_match(a.candidate, a.required,
                                                       a.preferred)],
                     !.done = TRUE]
    /\ Unused

SpecSkillMatch ==
    InitSkillMatch /\ [][ApplySkillMatch]_vars

\* C11: a batch task whose evaluator call timed out ends as that task's own
\* failure with its permit released; every other task of the batch ends by its
\* own outcome (returned exactly when it hit the cache or its own evaluator
\* call answered), no permit is lost, the batch call itself never fails, and
\* what it returns are the results of the tasks that returned, in input order.
C11_TimeoutIsolated ==
    /\ \A t \in BatchTasks :
          /\ tasks[t].aiout = "TimeoutError" =>
                /\ tasks[t].st = "raised" /\ tasks[t].exc = "TimeoutError"
                /\ ~tasks[t].held
          /\ Finished(tasks[t]) =>
                (tasks[t].st = "returned"
                   <=> (tasks[t].hit \/ tasks[t].aiout \in AIResponses))
          /\ tasks[t].st \in {"waiting", "ai", "returned", "raised"}
    /\ permits = MAX_CONCURRENT_ANALYSES
                   - Cardinality({t \in EngineTasks : tasks[t].st = "ai"})
    /\ batch.profiles # <<>> => batch.pc \notin {"raised", "backoff"}
    /\ batch.pc = "returned" =>
          /\ \A t \in BatchTasks : Finished(tasks[t])
          /\ batch.results = ResultsInOrder(1, Len(batch.profiles))

\* the batch returned a result although an earlier task of the same chunk had
\* timed out; the returned task had found no permit free when it started
C11_Witness ==
    /\ batch.pc = "returned"
    /\ batch.results # <<>>
    /\ permits = MAX_CONCURRENT_ANALYSES
    /\ \E a, b \in BatchTasks :
          /\ tasks[a].exc = "TimeoutError"
          /\ tasks[b].st = "returned" /\ tasks[b].calls = 1
          /\ tasks[b].free = 0
          /\ tasks[a].pos < tasks[b].pos
          /\ (tasks[a].pos - 1) \div ANALYSIS_BATCH_SIZE
                = (tasks[b].pos - 1) \div ANALYSIS_BATCH_SIZE

\* C12: what a cache hit returns is the result as it was computed: no change a
\* caller made to a result it was given shows in the result a later call gets.
C12_HitReturnsOriginal ==
    \A t \in DirectCalls :
       (tasks[t].st = "returned" /\ tasks[t].hit) => ~tasks[t].got.edited

\* engine call a wrote its result to the cache and direct engine call b, for
\* the same key, started after that and less than the TTL later
Repeats(a, b) ==
    /\ Sequential(a, b)
    /\ tasks[a].ins > 0
    /\ cache_key(tasks[a].p, tasks[a].r) = cache_key(tasks[b].p, tasks[b].r)

\* the other keys written to the engine's cache after a's write and before b started
OthersBetween(a, b) ==
    {cache_key(tasks[c].p, tasks[c].r) : c \in
        {c \in tasks[b].pre : /\ tasks[c].ins > tasks[a].ins
                              /\ cache_key(tasks[c].p, tasks[c].r)
                                    # cache_key(tasks[a].p, tasks[a].r)}}

LowConfidence(tk) ==
    /\ tk.via = "engine"
    /\ tk.aiout \in AIResponses
    /\ ~SkillMatchRaises(tk.r)
    /\ combine_analysis_results(tk.aiout, tk.p, tk.r).confidence_score
          < MIN_CONFIDENCE_SCORE

\* C14: an engine analysis whose combined confidence is under
\* MIN_CONFIDENCE_SCORE returns the complete result with that confidence; the
\* step in which it returns leaves the result in the cache under its key; a
\* batch that has returned holds the result of every such task of its own.
C14_LowConfidenceKept ==
    [][\A t \in 1..Len(tasks') :
          LowConfidence(tasks'[t]) =>
             /\ tasks'[t].st = "returned"
             /\ tasks'[t].got.keys = {"overall_match_score", "confidence_score",
                                     "ai_analysis", "skill_analysis",
                                     "gap_analysis", "metadata"}
             /\ tasks'[t].got.confidence_score < MIN_CONFIDENCE_SCORE
             /\ (t > Len(tasks) \/ tasks[t].st # "returned") =>
                   /\ CacheContains(cache', cache_key(tasks'[t].p, tasks'[t].r), now')
                   /\ CacheGet(cache', cache_key(tasks'[t].p, tasks'[t].r))
                         = tasks'[t].res
             /\ (tasks'[t].owner = "batch" /\ batch'.pc = "returned") =>
                   \E i \in 1..Len(batch'.results) :
                      batch'.results[i] = tasks'[t].res]_vars

\* a returned batch holds a result of low confidence, which is in the cache,
\* beside one of sufficient confidence
C14_Witness ==
    /\ batch.pc = "returned"
    /\ \E t, u \in BatchTasks :
          /\ LowConfidence(tasks[t])
          /\ tasks[t].aiout = "strong"
          /\ tasks[u].st = "returned" /\ ~tasks[u].hit /\ ~LowConfidence(tasks[u])
          /\ \E i \in 1..Len(batch.results) : batch.results[i] = tasks[t].res
          /\ \E i \in 1..Len(cache) : cache[i].val = tasks[t].res

\* the evaluator calls made by the tasks ts
RECURSIVE SumCalls(_)
SumCalls(ts) ==
    IF ts = {} THEN 0
    ELSE LET t == CHOOSE x \in ts : TRUE
         IN tasks[t].calls + SumCalls(ts \ {t})

\* C15: when analyze_profiles returned and every analysis of the batch
\* succeeded, it returned one result per profile and the evaluator was called
\* once per profile.
C15_OneCallPerProfile ==
    (batch.pc = "returned" /\ \A t \in BatchTasks : tasks[t].st = "returned") =>
       /\ Len(batch.results) = Len(batch.profiles)
       /\ SumCalls(BatchTasks) = Len(batch.profiles)

Computed(fn) ==
    calc.fn = fn /\ calc.done

\* the score the specification gives for total months against [min, max]; a
\* maximum of 0 is exceeded by every positive total without bound, which
\* leaves the floor
ExperienceReference(total, min, max) ==
    IF total < min
    THEN Max(0, RoundDiv(total * Unit, min, 1))
    ELSE IF max.t = "int" /\ total > max.v[1]
    THEN IF max.v[1] = 0 THEN (7 * Unit) \div 10
         ELSE Max((7 * Unit) \div 10,
                  Unit - RoundDiv((total - max.v[1]) * Unit, max.v[1], 1))
    ELSE Unit

\* what C16 says of the score out for (total, min, max)
ExperienceAsSpecified(total, min, max, out) ==
    /\ out = ExperienceReference(total, min, max)
    /\ 0 <= out /\ out <= Unit
    /\ (min > 0 /\ 2 * total = min) => out = Unit \div 2
    /\ (total >= min /\ max.t = "int" /\ total > max.v[1]) => 10 * out >= 7 * Unit
    /\ (total >= min /\ (max.t = "none" \/ total <= max.v[1])) => out = Unit

CoveredDays(exps) ==
    {d \in 0..200 : \E i \in 1..Len(exps) : exps[i].start <= d /\ d < exps[i].end}

\* the days from the earliest start to the latest end
SpanDays(exps) ==
    {d \in 0..200 : \E i, j \in 1..Len(exps) : exps[i].start <= d /\ d < exps[j].end}

RECURSIVE SumDurations(_, _)
SumDurations(exps, i) ==
    IF i > Len(exps) THEN 0 ELSE duration_months(exps[i]) + SumDurations(exps, i + 1)

\* entries i and j of exps exchanged
Swapped(exps, i, j) ==
    [k \in 1..Len(exps) |-> IF k = i THEN exps[j] ELSE IF k = j THEN exps[i] ELSE exps[k]]

Overlapping(exps) ==
    \E i, j \in 1..Len(exps) :
       i # j /\ exps[i].start < exps[j].end /\ exps[j].start < exps[i].end

\* the total is the length of the union of the intervals, in months
C17_UnionLength ==
    Computed("get_total_experience") =>
       calc.out = Months(Cardinality(CoveredDays(calc.args)))

\* the total does not depend on the order of the entries
C17_OrderIndependent ==
    Computed("get_total_experience") =>
       \A i, j \in 1..Len(calc.args) :
          total_experience(Swapped(calc.args, i, j)) = calc.out

\* the total is at most the span, and is not the sum of the durations when
\* entries overlap
C17_WithinSpan ==
    Computed("get_total_experience") =>
       /\ calc.out <= Months(Cardinality(SpanDays(calc.args)))
       /\ Overlapping(calc.args) => calc.out # SumDurations(calc.args, 1)

\* C17: for every list of experience entries get_total_experience returns the
\* length in months of the union of the intervals, whatever the order of the
\* entries; it does not exceed the span from the earliest start to the latest
\* end, and differs from the sum of the durations when entries overlap.
C17_TotalIsUnion ==
    C17_UnionLength /\ C17_OrderIndependent /\ C17_WithinSpan

ScoresComputed ==
    Computed("combine_analysis_results") \/ Computed("analyze_profile")

\* C18: for evaluator scores in 0..100 and skill and experience scores in
\* [0,1], the overall_match_score and the confidence_score combined by the
\* engine and by the analyzer lie in [0,100].
C18_ScoresInRange ==
    ScoresComputed =>
       /\ 0 <= calc.out.overall_match_score
       /\ calc.out.overall_match_score <= 100 * Unit
       /\ 0 <= calc.out.confidence_score
       /\ calc.out.confidence_score <= 100 * Unit

\* C19: with both confidences on the 0..1 scale, the confidence_score combined
\* by the engine and by the analyzer is 100 times the smaller of the two.
C19_ConfidenceIsScaledMin ==
    (ScoresComputed /\ calc.args.ai_confidence <= Unit) =>
       calc.out.confidence_score
          = Round2(100 * Least(calc.args.skill_confidence, calc.args.ai_confidence))

\* the candidate has the skill up to letter case
HasSkill(candidate, skill) ==
    \E c \in candidate : Lower(c) = Lower(skill)

GapsExact(candidate, skills, matched, missing) ==
    /\ \A skill \in skills : (skill \in matched) <=> HasSkill(candidate, skill)
    /\ \A skill \in skills : (skill \in missing) <=> ~HasSkill(candidate, skill)
    /\ matched \cup missing = skills
    /\ matched \cap missing = {}

\* C20: a required or preferred skill is reported as matched exactly when the
\* candidate has the same skill up to letter case and as missing otherwise, and
\* matched and missing partition the requirement set.
C20_GapsCaseNormalised ==
    Computed("analyze_skill_gaps") =>
       /\ GapsExact(normalized_skills(calc.args.skills), calc.args.required,
                    calc.out.matched_required, calc.out.missing_critical)
       /\ GapsExact(normalized_skills(calc.args.skills), calc.args.preferred,
                    calc.out.matched_preferred, calc.out.missing_preferred)

Count(recs, skill, priority) ==
    Cardinality({i \in 1..Len(recs) : recs[i] = Recommendation(skill, priority)})

\* C21: the recommendations hold exactly one High entry per missing required
\* skill and one Medium entry per missing preferred skill, and every High
\* entry comes before every Medium entry.
C21_RecommendationsOrdered ==
    Computed("generate_skill_recommendations") =>
       LET recs == calc.out
           missing_required == calc.args.required \ calc.args.skills
           missing_preferred == calc.args.preferred \ calc.args.skills
       IN /\ Len(recs) = Cardinality(missing_required) + Cardinality(missing_preferred)
          /\ \A i \in 1..Len(recs) :
                \/ recs[i].priority = "High" /\ recs[i].skill \in missing_required
                \/ recs[i].priority = "Medium" /\ recs[i].skill \in missing_preferred
          /\ \A skill \in missing_required : Count(recs, skill, "High") = 1
          /\ \A skill \in missing_preferred : Count(recs, skill, "Medium") = 1
          /\ \A i, j \in 1..Len(recs) :
                (recs[i].priority = "High" /\ recs[j].priority = "Medium") => i < j

C21_Witness ==
    /\ Computed("generate_skill_recommendations")
    /\ calc.args.required = {"aws"}
    /\ calc.args.preferred = {"terraform"}
    /\ calc.out = <<Recommendation("aws", "High"), Recommendation("terraform", "Medium")>>

\* C22: with an empty required-skills list calculate_skill_match returns a
\* required_skills_score of 1.0 and a required coverage of 100 without raising
\* and without computing a similarity for that list, and an empty preferred
\* list gives a preferred_skills_score of 1.0 in the same way; the other list
\* is any list, empty or not.
C22_EmptyListScoresOne ==
    Computed("calculate_skill_match") =>
       /\ (calc.args.required.v = <<>> /\ calc.args.required.t # "none"
              /\ calc.args.preferred.t # "none") =>
             /\ calc.out.exc = ""
             /\ calc.out.res.required_skills_score = Unit
             /\ calc.out.res.coverage_required = Unit
             /\ "required" \notin calc.out.similarity_calls
       /\ (calc.args.preferred.v = <<>> /\ calc.args.preferred.t # "none"
              /\ calc.args.required.t # "none") =>
             /\ calc.out.exc = ""
             /\ calc.out.res.preferred_skills_score = Unit
             /\ "preferred" \notin calc.out.similarity_calls

C22_Witness ==
    /\ Computed("calculate_skill_match")
    /\ calc.args.candidate = {"java", "python"}
    /\ calc.args.required = VList(<<>>)
    /\ calc.args.preferred = VList(<<"python", "aws">>)
    /\ calc.out.res.required_skills_score = Unit
    /\ calc.out.res.preferred_skills_score < Unit

SameKey(a, b) ==
    cache_key(tasks[a].p, tasks[a].r) = cache_key(tasks[b].p, tasks[b].r)

\* C23: of two analyze_single_profile calls for one key that both start before
\* the key is written, neither is served from the cache, each one that got
\* past the limiter made its own evaluator call, and each cache write
\* replaces whatever the key held, so the later write stays.
C23_BothMissBothCompute ==
    /\ [](\A a, b \in 1..Len(tasks) :
            (a # b /\ SameKey(a, b) /\ ~tasks[a].cached /\ ~tasks[b].cached) =>
               /\ ~tasks[a].hit
               /\ tasks[a].st \in {"ai", "returned"} => tasks[a].calls = 1)
    /\ [][\A t \in 1..Len(tasks) :
            (tasks[t].st = "ai" /\ tasks'[t].st = "returned") =>
               /\ CacheContains(cache', cache_key(tasks[t].p, tasks[t].r), now)
               /\ CacheGet(cache', cache_key(tasks[t].p, tasks[t].r)).oid = t]_vars

\* two evaluations in flight for one key
C23_Witness ==
    \E a, b \in 1..Len(tasks) :
       /\ a # b /\ SameKey(a, b)
       /\ tasks[a].st = "ai" /\ tasks[b].st = "ai"

\* C24: the permit is held around the evaluator call alone: skill matching,
\* gap analysis, combination and the cache write of an analysis run after the
\* permit is released.
C24_PermitAroundEvaluatorOnly ==
    \A t \in 1..Len(tasks) :
       tasks[t].via = "engine" => tasks[t].under \subseteq {"analyze_profile"}

\* C25: for the same evaluator result, skill match and profile the engine's
\* overall_match_score and confidence_score equal the analyzer's.
C25_EngineEqualsAnalyzer ==
    Computed("both") =>
       /\ calc.out.engine.overall_match_score = calc.out.analyzer.overall_match_score
       /\ calc.out.engine.confidence_score = calc.out.analyzer.confidence_score

\* the same skill written in other letter case
SameUpToCase(a, b) ==
    \/ a = b
    \/ {a, b} \in {{"Python", "python"}, {" AWS ", " aws "}}

\* every skill a profile lists, as written
Listed(a) ==
    SeqToSet(a.skills) \cup UNION {SeqToSet(a.experience[i]) : i \in 1..Len(a.experience)}

\* two profiles that list the same skills up to letter case, order and repetition
SameSkills(a, b) ==
    /\ \A x \in Listed(a) : \E y \in Listed(b) : SameUpToCase(x, y)
    /\ \A y \in Listed(b) : \E x \in Listed(a) : SameUpToCase(x, y)

Position(skill) ==
    CHOOSE i \in 1..Len(SkillOrder) : SkillOrder[i] = skill

\* C26: get_all_skills returns the sorted list without duplicates of the
\* trimmed lower-cased non-blank skills of the profile and of its experience
\* entries, and returns the same list for every profile that lists the same
\* skills in another order or letter case.
C26_AllSkillsNormalised ==
    Computed("get_all_skills") =>
       /\ \A i, j \in 1..Len(calc.out) :
             i < j => Position(calc.out[i]) < Position(calc.out[j])
       /\ SeqToSet(calc.out) \subseteq {"aws", "java", "python"}
       /\ \A skill \in {"aws", "java", "python"} :
             (skill \in SeqToSet(calc.out)) <=>
                (\E x \in Listed(calc.args) :
                    x \in {skill, " " \o skill \o " "}
                    \/ \E y \in {skill, " " \o skill \o " "} :
                          x # y /\ SameUpToCase(x, y))
       /\ \A b \in SkillProfiles :
             SameSkills(calc.args, b) =>
                all_skills_list(b.skills, b.experience) = calc.out

C26_Witness ==
    /\ Computed("get_all_skills")
    /\ calc.args.skills = <<"python", " AWS ">>
    /\ calc.args.experience = <<<<"Python">>>>
    /\ calc.out = <<"aws", "python">>

\* C27: the free permits and the analyses inside the guarded section add up
\* to MAX_CONCURRENT_ANALYSES; an analysis that ended, by a result or by an
\* exception of the evaluator or of the skill matcher, holds no permit, and
\* with no analysis in flight every permit is free.
C27_PermitsConserved ==
    /\ permits + Cardinality({t \in EngineTasks : tasks[t].held})
          = MAX_CONCURRENT_ANALYSES
    /\ \A t \in EngineTasks : tasks[t].held <=> tasks[t].st = "ai"
    /\ (\A t \in EngineTasks : Finished(tasks[t])) => permits = MAX_CONCURRENT_ANALYSES

\* an analysis ended by the skill matcher, one by the evaluator, none in flight
C27_Witness ==
    /\ \E t, u \in EngineTasks :
          /\ tasks[t].st = "raised" /\ MatcherRaised(tasks[t])
          /\ tasks[u].st = "raised" /\ tasks[u].aiout \in AIFailures
    /\ \A t \in EngineTasks : Finished(tasks[t])
    /\ permits = MAX_CONCURRENT_ANALYSES

\* the input positions up to i whose analysis returned a result
Succeeded(i) ==
    {k \in 1..i : \E t \in BatchTasks : tasks[t].pos = k /\ tasks[t].st = "returned"}

\* C28: the list analyze_profiles returns holds the results of the successful
\* profiles in input order: the result of input position i stands at the
\* index that counts the successes up to i, whatever the order in which the
\* analyses ended and whichever chunk they were in.
C28_ResultsInInputOrder ==
    batch.pc = "returned" =>
       \A t \in BatchTasks :
          tasks[t].st = "returned" =>
             /\ Cardinality(Succeeded(tasks[t].pos)) <= Len(batch.results)
             /\ batch.results[Cardinality(Succeeded(tasks[t].pos))] = tasks[t].res

\* the second task of the first chunk ended before the first, and a task of
\* the next chunk succeeded too
C28_Witness ==
    /\ batch.pc = "returned"
    /\ \E a, b, c \in BatchTasks :
          /\ tasks[a].pos = 1 /\ tasks[b].pos = 2 /\ tasks[c].pos > ANALYSIS_BATCH_SIZE
          /\ tasks[a].ins > tasks[b].ins /\ tasks[b].ins > 0
          /\ tasks[c].st = "returned"
          /\ batch.results = <<tasks[a].res, tasks[b].res, tasks[c].res>>

\* C29: in every result of analyze_single_profile the skill_gaps of the
\* gap_analysis are the missing_critical skills of the skill_analysis, both are
\* the required skills the candidate does not have, and the required
\* coverage is 100 only if none is missing.
C29_GapsAgree ==
    \A t \in EngineTasks :
       tasks[t].st = "returned" =>
          LET lacking == SkillSet(Get(tasks[t].r, "required_skills", VList(<<>>)))
                            \ get_all_skills(tasks[t].p)
          IN /\ tasks[t].got.skill_gaps = tasks[t].got.missing_critical
             /\ tasks[t].got.missing_critical = lacking
             /\ tasks[t].got.full_coverage => lacking = {}

\* C30: under a fair schedule in which every evaluator call ends, every
\* analyze_profiles call ends, by returning when its batch is not empty, and
\* every analysis that waits for a permit gets one: the analyses that wait
\* are those in the limiter's queue, the queue empties again and again, and an
\* analysis leaves it only by taking a permit and calling the evaluator.
C30_BatchAndWaitersProgress ==
    /\ (batch.pc # "idle")
          ~> (batch.pc = "returned" \/ (batch.pc = "raised" /\ batch.profiles = <<>>))
    /\ []<>(waiters = <<>>)
    /\ [](\A t \in 1..Len(tasks) :
            /\ tasks[t].st = "waiting" <=> (\E i \in 1..Len(waiters) : waiters[i] = t)
            /\ (tasks[t].free = 0 /\ ~tasks[t].hit /\ tasks[t].st # "waiting")
                  => tasks[t].calls = 1)

\* a batch returned after one of its tasks and a direct call had both waited
\* for the permit
C30_Witness ==
    /\ batch.pc = "returned"
    /\ \A t \in 1..Len(tasks) : Finished(tasks[t])
    /\ \E t, u \in EngineTasks :
          /\ tasks[t].owner = "batch" /\ tasks[u].owner = "single"
          /\ tasks[t].free = 0 /\ tasks[u].free = 0
          /\ tasks[t].calls = 1 /\ tasks[u].calls = 1

====
